---- MODULE Spec2Model ----
(***************************************************************************)
(* FTP-Smasher: a model of the two scanners of the repository.             *)
(*                                                                         *)
(*   Spec      src/src/scanner.py  FTPScanner.scan: a thread pool maps     *)
(*             scan_server over the shuffled host list; each scan_server   *)
(*             connects, logs in, records the server, walks the remote     *)
(*             tree with scan_directory and leaves the connection context. *)
(*   SpecMain  src/main.py         init_processes splits the host list     *)
(*             over cpu_cores processes; each process runs num_threads     *)
(*             threads looping pop-and-login over the process's list.      *)
(***************************************************************************)
EXTENDS Integers, Sequences, FiniteSets, TLC

(***************************************************************************)
(* Bounds of the model.                                                    *)
(***************************************************************************)
Hosts == {"h1", "h2"}

\* lines of the input file
MaxLines == 2

\* entries of one directory listing
MaxList == 2

\* nested scan_directory calls the interpreter allows before RecursionError
RecursionLimit == 3

\* largest ScannerConfig.num_threads, the pool's max_workers
NumThreads == 2

\* main.py: the values of cpu_cores (0 on a single-core machine), and num_threads
CoreCounts == {0, 1, 2}

MainThreads == 2

\* one whitespace-only line of the input file
Blank == " "

None == "None"

SeqsUpTo(S, n) == UNION {[1..k -> S] : k \in 0..n}

(***************************************************************************)
(* State of scanner.py.                                                    *)
(*   nested        the environment of the run: TRUE when the servers may   *)
(*                 present nested directories (then one host is scanned),  *)
(*                 FALSE when every server presents one flat directory     *)
(*   num_threads   ScannerConfig.num_threads of the run, the pool's        *)
(*                 max_workers; with one host in the list the pool size    *)
(*                 makes no difference and the largest one is taken        *)
(*   ip_list       scan()'s local ip_list                                  *)
(*   spc           where scan() is: "start", "running", "done"             *)
(*   nextItem      first work item of the executor's queue not yet taken   *)
(*   ipc           per work item: where its scan_server call is            *)
(*   stack         per work item: the active scan_directory calls          *)
(*   cwd           per work item: the server's current directory           *)
(*   exc           per work item: exception pending in the with body       *)
(*   conn          per work item: the socket ("none", "open", "closed")    *)
(*   results       per work item: scan_server's return value               *)
(*   status        Database servers table: host -> status                  *)
(*   dirs          Database directories table: the (server, path) rows     *)
(*   files         Database files table: the directories that have rows    *)
(*   servers_found FTPScanner.servers_found; while main.py runs, the main  *)
(*                 process's global servers_found (main.py line 24), which *)
(*                 only login appends to, in the worker processes          *)
(*   ret           what scan() returned                                    *)
(*   log           history: the statuses each scan_server call has written *)
(*   hist          history: what happened to each scan_server call: the    *)
(*                 outcome of connect, "absorbed" (an exception outside    *)
(*                 all_errors caught inside scan_directory), "recursion"   *)
(*                 (it was a RecursionError), "escaped"                    *)
(*                 (one that left scan_directory), "quit_ftp" and          *)
(*                 "quit_other" (quit raised)                              *)
(***************************************************************************)
VARIABLES nested, num_threads, ip_list, spc, nextItem, ipc, stack, cwd, exc, conn, results,
          status, dirs, files, servers_found, ret, log, hist

svars == <<nested, num_threads, ip_list, spc, nextItem, ipc, stack, cwd, exc, conn, results,
           status, dirs, files, servers_found, ret, log, hist>>

(***************************************************************************)
(* State of main.py.                                                       *)
(*   mpc           where the main program is: "start", "read" (parse_args  *)
(*                 done), "spawn" (inside init_processes' loop), "exit"    *)
(*                 (init_processes returned), "crashed", "done"            *)
(*   cpu_cores     the global of line 17                                   *)
(*   main_list     the main process's global ip_list                       *)
(*   ip_list_split init_processes' local of line 76                        *)
(*   processes     number of processes started so far (the list of l. 21)  *)
(*   queue         per process: its global ip_list (init_globals)          *)
(*   found         per process: its global servers_found                   *)
(*   lock          per process: the thread holding t_ip_list_lock, or 0    *)
(*   threads       per process: number of threads p_main has started       *)
(*   tpc, tip      per process and thread: where t_main is, its local ip;  *)
(*                 "unborn" before the thread is started, "end" when       *)
(*                 t_main has returned, "dead" when the process has died   *)
(*   logins        history: per process and host, the calls of login       *)
(***************************************************************************)
VARIABLES mpc, cpu_cores, main_list, ip_list_split, processes, queue, found,
          lock, threads, tpc, tip, logins

mvars == <<mpc, cpu_cores, main_list, ip_list_split, processes, queue, found,
           lock, threads, tpc, tip, logins>>

\* the hosts main.py's read_ips can put in the list: a blank line gives ""
MainHosts == Hosts \cup {""}

vars == <<svars, mvars>>

Items == 1..Len(ip_list)

(***************************************************************************)
(* file_utils.read_ips: strip every line, drop the empty ones, shuffle.    *)
(***************************************************************************)
Strip(line) == IF line = Blank THEN "" ELSE line

RECURSIVE StripLines(_)
StripLines(ls) ==
    IF ls = <<>> THEN <<>>
    ELSE IF Strip(Head(ls)) = "" THEN StripLines(Tail(ls))
         ELSE <<Strip(Head(ls))>> \o StripLines(Tail(ls))

Perms(n) == {f \in [1..n -> 1..n] : \A a, b \in 1..n : f[a] = f[b] => a = b}

\* every order random.shuffle can leave the list in
Shuffles(s) == {[k \in 1..Len(s) |-> s[f[k]]] : f \in Perms(Len(s))}

read_ips(ls) == Shuffles(StripLines(ls))

(***************************************************************************)
(* Directory listings.  A LIST line is modelled by its whitespace-split    *)
(* fields: the permission field, the number of fields and the name field.  *)
(***************************************************************************)
DirLine == [perm |-> "d", nfields |-> 9, name |-> "a", raw |-> "d 2 u g 4096 Jan 1 2020 a"]
FileLine == [perm |-> "-", nfields |-> 9, name |-> "f", raw |-> "- 1 u g 123 Feb 2 2021 f"]
DotLine == [perm |-> "d", nfields |-> 9, name |-> ".", raw |-> "d 2 u g 4096 Jan 1 2020 ."]
TotalLine == [perm |-> "total", nfields |-> 2, name |-> "", raw |-> "total 8"]

\* What a server may answer LIST with.  A flat server lists at most one file.
\* A nested one lists up to MaxList lines: directories and files, after an
\* optional "total" line or "." entry, which ls -la prints first.
ListHeads == {<<>>, <<TotalLine>>, <<DotLine>>}

Listings(deep) ==
    IF deep
    THEN {h \o b : h \in ListHeads, b \in SeqsUpTo({DirLine, FileLine}, MaxList)} \cap
         SeqsUpTo({DirLine, FileLine, TotalLine, DotLine}, MaxList)
    ELSE SeqsUpTo({FileLine}, 1)

\* the input files of a run
InputFiles(deep) == SeqsUpTo(Hosts \cup {Blank}, IF deep THEN 1 ELSE MaxLines)

\* FTPFileInfo.from_list_output
from_list_output(line) ==
    IF line.nfields < 9
    THEN [name |-> line.raw, is_dir |-> FALSE]
    ELSE [name |-> line.name, is_dir |-> (line.perm = "d")]

\* FTPConnection.list_directory on an answered LIST
list_directory(file_list) == [k \in 1..Len(file_list) |-> from_list_output(file_list[k])]

Parent(p) == IF p = <<>> THEN <<>> ELSE SubSeq(p, 1, Len(p) - 1)

Top(i) == stack[i][Len(stack[i])]

SetTop(i, f) == [stack EXCEPT ![i][Len(stack[i])] = f]

Pop(i) == SubSeq(stack[i], 1, Len(stack[i]) - 1)

Frame(path, before) == [path |-> path, phase |-> "enter", items |-> <<>>, before |-> before]

Running == {j \in Items : ipc[j] \notin {"queued", "done"}}

(***************************************************************************)
(* Database.add_server: upsert keyed by host.                              *)
(***************************************************************************)
add_server(h, st) == [status EXCEPT ![h] = st]

(***************************************************************************)
(* Database.add_file appends a row to the files table; the model keeps the *)
(* directories (server, path) that have rows.                              *)
(***************************************************************************)
add_file(dir_id, name) == files \cup {dir_id}

\* main.py is not running
MainOff ==
    /\ mpc = "off"
    /\ cpu_cores = 0
    /\ main_list = <<>>
    /\ ip_list_split = <<>>
    /\ processes = 0
    /\ queue = <<>>
    /\ found = <<>>
    /\ lock = <<>>
    /\ threads = <<>>
    /\ tpc = <<>>
    /\ tip = <<>>
    /\ logins = <<>>

Init ==
    /\ MainOff
    /\ nested \in BOOLEAN
    /\ num_threads \in IF nested THEN {NumThreads} ELSE 1..NumThreads
    /\ ip_list = <<>>
    /\ spc = "start"
    /\ nextItem = 1
    /\ ipc = <<>>
    /\ stack = <<>>
    /\ cwd = <<>>
    /\ exc = <<>>
    /\ conn = <<>>
    /\ results = <<>>
    /\ status = [h \in Hosts |-> "pending"]
    /\ dirs = {}
    /\ files = {}
    /\ servers_found = <<>>
    /\ ret = <<>>
    /\ log = <<>>
    /\ hist = <<>>

(***************************************************************************)
(* scan(), lines 213-222: read the list; an empty list returns [] at once, *)
(* otherwise every host is submitted to the executor.                      *)
(***************************************************************************)
ScanStart ==
    /\ spc = "start"
    /\ \E lines \in InputFiles(nested) : \E l \in read_ips(lines) :
         /\ ip_list' = l
         /\ IF l = <<>>
            THEN /\ spc' = "done"
                 /\ ret' = <<>>
            ELSE /\ spc' = "running"
                 /\ ret' = ret
         /\ ipc' = [j \in 1..Len(l) |-> "queued"]
         /\ stack' = [j \in 1..Len(l) |-> <<>>]
         /\ cwd' = [j \in 1..Len(l) |-> <<>>]
         /\ exc' = [j \in 1..Len(l) |-> "none"]
         /\ conn' = [j \in 1..Len(l) |-> "none"]
         /\ results' = [j \in 1..Len(l) |-> "pending"]
         /\ log' = [j \in 1..Len(l) |-> <<>>]
         /\ hist' = [j \in 1..Len(l) |-> {}]
    /\ UNCHANGED <<nested, num_threads, nextItem, status, dirs, files, servers_found>>

(***************************************************************************)
(* A pool thread takes the next work item of executor.map (FIFO); at most  *)
(* max_workers items run at a time.                                        *)
(***************************************************************************)
Start(i) ==
    /\ spc = "running"
    /\ i = nextItem
    /\ ipc[i] = "queued"
    /\ Cardinality(Running) < num_threads
    /\ ipc' = [ipc EXCEPT ![i] = "connect"]
    /\ nextItem' = nextItem + 1
    /\ UNCHANGED <<nested, num_threads, ip_list, spc, stack, cwd, exc, conn, results, status,
                   dirs, files, servers_found, ret, log, hist>>

\* the handlers with the two statuses exchanged
HandleSwapped(i, e) ==
    /\ status' = add_server(ip_list[i], IF e = "ftp" THEN "error" ELSE "failed")
    /\ log' = [log EXCEPT ![i] = Append(@, IF e = "ftp" THEN "error" ELSE "failed")]
    /\ results' = [results EXCEPT ![i] = None]
    /\ ipc' = [ipc EXCEPT ![i] = "done"]

\* the handlers without the except Exception clause: the exception leaves scan_server
HandleNoCatchAll(i, e) ==
    /\ status' = IF e = "ftp" THEN add_server(ip_list[i], "failed") ELSE status
    /\ log' = [log EXCEPT ![i] = IF e = "ftp" THEN Append(@, "failed") ELSE @]
    /\ results' = [results EXCEPT ![i] = IF e = "ftp" THEN None ELSE "raised"]
    /\ ipc' = [ipc EXCEPT ![i] = "done"]

\* scan_server's handlers, lines 200-207: record the status, return None
Handle(i, e) ==
    /\ status' = add_server(ip_list[i], IF e = "ftp" THEN "failed" ELSE "error")
    /\ log' = [log EXCEPT ![i] = Append(@, IF e = "ftp" THEN "failed" ELSE "error")]
    /\ results' = [results EXCEPT ![i] = None]
    /\ ipc' = [ipc EXCEPT ![i] = "done"]

(***************************************************************************)
(* with FTPConnection(...): __enter__ -> connect(), lines 56-68.           *)
(*   refused     FTP() raised before a socket existed                      *)
(*   rejected    FTP() connected, login raised one of all_errors           *)
(*   garbled     connected, an exception outside all_errors was raised     *)
(*   ok          logged in                                                 *)
(* __enter__ raising means __exit__ is not called.                         *)
(***************************************************************************)
ConnectOutcomes == {"ok", "refused", "rejected", "garbled"}

\* connect() with the error of login swallowed: the with body runs anyway
ConnectIgnoresLogin(i) ==
    /\ ipc[i] = "connect"
    /\ \E r \in ConnectOutcomes :
         /\ conn' = [conn EXCEPT ![i] = IF r = "refused" THEN "none" ELSE "open"]
         /\ hist' = [hist EXCEPT ![i] = @ \cup {r}]
         /\ IF r \in {"ok", "rejected"}
            THEN /\ ipc' = [ipc EXCEPT ![i] = "record"]
                 /\ UNCHANGED <<status, log, results>>
            ELSE Handle(i, IF r = "garbled" THEN "other" ELSE "ftp")
    /\ UNCHANGED <<nested, num_threads, ip_list, spc, nextItem, stack, cwd, exc, dirs, files,
                   servers_found, ret>>

Connect(i) ==
    /\ ipc[i] = "connect"
    /\ \E r \in ConnectOutcomes :
         /\ conn' = [conn EXCEPT ![i] = IF r = "refused" THEN "none" ELSE "open"]
         /\ hist' = [hist EXCEPT ![i] = @ \cup {r}]
         /\ IF r = "ok"
            THEN /\ ipc' = [ipc EXCEPT ![i] = "record"]
                 /\ UNCHANGED <<status, log, results>>
            ELSE Handle(i, IF r = "garbled" THEN "other" ELSE "ftp")
    /\ UNCHANGED <<nested, num_threads, ip_list, spc, nextItem, stack, cwd, exc, dirs, files,
                   servers_found, ret>>

(***************************************************************************)
(* Lines 189-195: banner, add_server(ip, "success"), then the call of      *)
(* scan_directory(connection, "/", server_id).                             *)
(***************************************************************************)
Record(i) ==
    /\ ipc[i] = "record"
    /\ status' = add_server(ip_list[i], "success")
    /\ log' = [log EXCEPT ![i] = Append(@, "success")]
    /\ stack' = [stack EXCEPT ![i] = <<Frame(<<>>, cwd[i])>>]
    /\ ipc' = [ipc EXCEPT ![i] = "traverse"]
    /\ UNCHANGED <<nested, num_threads, ip_list, spc, nextItem, cwd, exc, conn, results, dirs,
                   files, servers_found, ret, hist>>

(***************************************************************************)
(* scan_directory, lines 168-175: change into the directory.               *)
(*   ok     cwd succeeded; add_directory records the path                  *)
(*   fail   change_directory caught one of all_errors and returned False:  *)
(*          the early return of line 173, which still runs the finally     *)
(*   raise  cwd raised outside all_errors: caught at line 178              *)
(***************************************************************************)
CwdOutcomes == {"ok", "fail", "raise"}

\* add_directory called before the result of change_directory is looked at
EnterDirRecords(i) ==
    /\ ipc[i] = "traverse"
    /\ Top(i).phase = "enter"
    /\ \E r \in CwdOutcomes :
         /\ cwd' = [cwd EXCEPT ![i] = IF r = "ok" THEN Top(i).path ELSE @]
         /\ dirs' = IF r # "raise" THEN dirs \cup {<<ip_list[i], Top(i).path>>} ELSE dirs
         /\ stack' = SetTop(i, [Top(i) EXCEPT !.phase = IF r = "ok" THEN "list" ELSE "finally"])
         /\ hist' = [hist EXCEPT ![i] = IF r = "raise" THEN @ \cup {"absorbed"} ELSE @]
    /\ UNCHANGED <<nested, num_threads, ip_list, spc, nextItem, ipc, exc, conn, results, status,
                   files, servers_found, ret, log>>

EnterDir(i) ==
    /\ ipc[i] = "traverse"
    /\ Top(i).phase = "enter"
    /\ \E r \in CwdOutcomes :
         /\ cwd' = [cwd EXCEPT ![i] = IF r = "ok" THEN Top(i).path ELSE @]
         /\ dirs' = IF r = "ok" THEN dirs \cup {<<ip_list[i], Top(i).path>>} ELSE dirs
         /\ stack' = SetTop(i, [Top(i) EXCEPT !.phase = IF r = "ok" THEN "list" ELSE "finally"])
         /\ hist' = [hist EXCEPT ![i] = IF r = "raise" THEN @ \cup {"absorbed"} ELSE @]
    /\ UNCHANGED <<nested, num_threads, ip_list, spc, nextItem, ipc, exc, conn, results, status,
                   files, servers_found, ret, log>>

(***************************************************************************)
(* _process_directory_contents, line 141: LIST of the current directory.   *)
(* An error of retrlines (of all_errors or not) leaves the function and is *)
(* caught at line 178.                                                     *)
(***************************************************************************)
ListErrors == {"ftp", "other"}

ListDir(i) ==
    /\ ipc[i] = "traverse"
    /\ Top(i).phase = "list"
    /\ \/ \E file_list \in Listings(nested) :
            /\ stack' = SetTop(i, [Top(i) EXCEPT !.phase = "items",
                                                 !.items = list_directory(file_list)])
            /\ hist' = hist
       \/ \E e \in ListErrors :
            /\ stack' = SetTop(i, [Top(i) EXCEPT !.phase = "finally"])
            /\ hist' = [hist EXCEPT ![i] = IF e = "other" THEN @ \cup {"absorbed"} ELSE @]
    /\ UNCHANGED <<nested, num_threads, ip_list, spc, nextItem, ipc, cwd, exc, conn, results,
                   status, dirs, files, servers_found, ret, log>>

(***************************************************************************)
(* _process_directory_contents, lines 148-159: one turn of the loop.  A    *)
(* call beyond the interpreter's recursion limit raises RecursionError in  *)
(* the caller's try body, caught at line 178.                              *)
(***************************************************************************)
\* a loop that does not move on
AdvanceStuck(f) == f

\* the for loop of line 148 moves to the next entry
Advance(f) == [f EXCEPT !.items = Tail(@)]

ProcessItem(i) ==
    /\ ipc[i] = "traverse"
    /\ Top(i).phase = "items"
    /\ Top(i).items # <<>>
    /\ LET item == Head(Top(i).items)
           rest == Advance(Top(i))
       IN  IF item.is_dir /\ item.name \notin {".", ".."}
           THEN IF Len(stack[i]) < RecursionLimit
                THEN /\ stack' = [stack EXCEPT ![i] =
                            Append(Pop(i), rest) \o
                            <<Frame(Append(Top(i).path, item.name), cwd[i])>>]
                     /\ UNCHANGED <<files, hist>>
                ELSE /\ stack' = SetTop(i, [Top(i) EXCEPT !.phase = "finally"])
                     /\ hist' = [hist EXCEPT ![i] = @ \cup {"absorbed", "recursion"}]
                     /\ files' = files
           ELSE IF ~item.is_dir
                THEN /\ files' = add_file(<<ip_list[i], Top(i).path>>, item.name)
                     /\ stack' = SetTop(i, rest)
                     /\ hist' = hist
                ELSE /\ stack' = SetTop(i, rest)
                     /\ UNCHANGED <<files, hist>>
    /\ UNCHANGED <<nested, num_threads, ip_list, spc, nextItem, ipc, cwd, exc, conn, results,
                   status, dirs, servers_found, ret, log>>

(***************************************************************************)
(* scan_directory, lines 180-181: the finally clause, change_directory     *)
(* ('..'), then the return to the caller.  An exception of cwd outside     *)
(* all_errors leaves scan_directory: the calling scan_directory catches it *)
(* at line 178, the outermost one passes it to scan_server's with block.   *)
(***************************************************************************)
Leaving(f) == f.phase = "finally" \/ (f.phase = "items" /\ f.items = <<>>)

LeaveDir(i) ==
    /\ ipc[i] = "traverse"
    /\ Leaving(Top(i))
    /\ \E r \in CwdOutcomes :
         /\ cwd' = [cwd EXCEPT ![i] = IF r = "ok" THEN Parent(@) ELSE @]
         /\ hist' = [hist EXCEPT ![i] = IF r = "raise" /\ Len(stack[i]) > 1 THEN @ \cup {"absorbed"}
                                         ELSE IF r = "raise" THEN @ \cup {"escaped"} ELSE @]
         /\ IF Len(stack[i]) = 1
            THEN /\ stack' = [stack EXCEPT ![i] = <<>>]
                 /\ ipc' = [ipc EXCEPT ![i] = "exit"]
                 /\ exc' = [exc EXCEPT ![i] = IF r = "raise" THEN "other" ELSE "none"]
            ELSE /\ stack' = [stack EXCEPT ![i] =
                        IF r = "raise"
                        THEN [Pop(i) EXCEPT ![Len(stack[i]) - 1].phase = "finally"]
                        ELSE Pop(i)]
                 /\ UNCHANGED <<ipc, exc>>
    /\ UNCHANGED <<nested, num_threads, ip_list, spc, nextItem, conn, results, status, dirs,
                   files, servers_found, ret, log>>

(***************************************************************************)
(* Leaving the with block, lines 60-61 and 70-75: disconnect() calls       *)
(* quit().  If quit raises, self.ftp stays set, the socket stays open and  *)
(* the exception replaces the pending one; scan_server's handlers then     *)
(* record failed (all_errors) or error (anything else).  Otherwise a       *)
(* pending exception reaches the handlers, or line 198 returns ip.         *)
(***************************************************************************)
QuitOutcomes == {"ok", "ftp", "other"}

Disconnect(i) ==
    /\ ipc[i] = "exit"
    /\ \E q \in QuitOutcomes :
         /\ conn' = [conn EXCEPT ![i] = IF q = "ok" THEN "closed" ELSE @]
         /\ hist' = [hist EXCEPT ![i] = IF q = "ok" THEN @ ELSE @ \cup {"quit_" \o q}]
         /\ IF q # "ok"
            THEN Handle(i, q)
            ELSE IF exc[i] # "none"
                 THEN Handle(i, exc[i])
                 ELSE /\ results' = [results EXCEPT ![i] = ip_list[i]]
                      /\ ipc' = [ipc EXCEPT ![i] = "done"]
                      /\ UNCHANGED <<status, log>>
    /\ cwd' = [cwd EXCEPT ![i] = <<>>]
    /\ UNCHANGED <<nested, num_threads, ip_list, spc, nextItem, stack, exc, dirs, files,
                   servers_found, ret>>

(***************************************************************************)
(* scan(), lines 222-228: list(executor.map(...)) has every result, in the *)
(* order of ip_list; servers_found keeps the ones that are not None.       *)
(***************************************************************************)
\* the results that are not None, last one first
RECURSIVE NotNoneReversed(_)
NotNoneReversed(rs) ==
    IF rs = <<>> THEN <<>>
    ELSE IF Head(rs) = None THEN NotNoneReversed(Tail(rs))
         ELSE NotNoneReversed(Tail(rs)) \o <<Head(rs)>>

RECURSIVE NotNone(_)
NotNone(rs) ==
    IF rs = <<>> THEN <<>>
    ELSE IF Head(rs) = None THEN NotNone(Tail(rs))
         ELSE <<Head(rs)>> \o NotNone(Tail(rs))

Collect ==
    /\ spc = "running"
    /\ \A j \in Items : ipc[j] = "done"
    /\ servers_found' = NotNone(results)
    /\ ret' = servers_found'
    /\ spc' = "done"
    /\ UNCHANGED <<nested, num_threads, ip_list, nextItem, ipc, stack, cwd, exc, conn, results,
                   status, dirs, files, log, hist>>

Next ==
    \/ ScanStart /\ UNCHANGED mvars
    \/ \E i \in Items : Start(i) /\ UNCHANGED mvars
    \/ \E i \in Items : Connect(i) /\ UNCHANGED mvars
    \/ \E i \in Items : Record(i) /\ UNCHANGED mvars
    \/ \E i \in Items : EnterDir(i) /\ UNCHANGED mvars
    \/ \E i \in Items : ListDir(i) /\ UNCHANGED mvars
    \/ \E i \in Items : ProcessItem(i) /\ UNCHANGED mvars
    \/ \E i \in Items : LeaveDir(i) /\ UNCHANGED mvars
    \/ \E i \in Items : Disconnect(i) /\ UNCHANGED mvars
    \/ Collect /\ UNCHANGED mvars

Spec == Init /\ [][Next]_vars

(***************************************************************************)
(*                               main.py                                   *)
(***************************************************************************)
\* scanner.py is not running
ScanOff ==
    /\ nested = FALSE
    /\ num_threads = 1
    /\ ip_list = <<>>
    /\ spc = "off"
    /\ nextItem = 1
    /\ ipc = <<>>
    /\ stack = <<>>
    /\ cwd = <<>>
    /\ exc = <<>>
    /\ conn = <<>>
    /\ results = <<>>
    /\ status = [h \in Hosts |-> "pending"]
    /\ dirs = {}
    /\ files = {}
    /\ servers_found = <<>>
    /\ ret = <<>>
    /\ log = <<>>
    /\ hist = <<>>

\* cpu_cores = floor(cpu_count / 2), line 17: 0 on a single-core machine
InitMain ==
    /\ ScanOff
    /\ mpc = "start"
    /\ cpu_cores \in CoreCounts
    /\ main_list = <<>>
    /\ ip_list_split = <<>>
    /\ processes = 0
    /\ queue = [p \in 1..cpu_cores |-> <<>>]
    /\ found = [p \in 1..cpu_cores |-> <<>>]
    /\ lock = [p \in 1..cpu_cores |-> 0]
    /\ threads = [p \in 1..cpu_cores |-> 0]
    /\ tpc = [p \in 1..cpu_cores |-> [t \in 1..MainThreads |-> "unborn"]]
    /\ tip = [p \in 1..cpu_cores |-> [t \in 1..MainThreads |-> None]]
    /\ logins = [p \in 1..cpu_cores |-> [h \in MainHosts |-> 0]]

\* line.rstrip(), line 68: a whitespace-only line becomes the empty string
RStrip(line) == IF line = Blank THEN "" ELSE line

(***************************************************************************)
(* parse_args -> read_ips, lines 64-70: every line of the file, rstripped, *)
(* is appended (empty ones too); then the list is shuffled.                *)
(***************************************************************************)
MainReadIps ==
    /\ mpc = "start"
    /\ \E ls \in SeqsUpTo(Hosts \cup {Blank}, MaxLines) :
         main_list' \in Shuffles([k \in 1..Len(ls) |-> RStrip(ls[k])])
    /\ mpc' = "read"
    /\ UNCHANGED <<logins, cpu_cores, ip_list_split, processes, queue, found, lock,
                   threads, tpc, tip>>

(***************************************************************************)
(* numpy.array_split(ary, n), line 76: n sections, the first len % n of    *)
(* them of len // n + 1 elements, the others of len // n.                  *)
(***************************************************************************)
SectionSize(len, n, k) == IF k <= len % n THEN (len \div n) + 1 ELSE len \div n

DivPoint(len, n, k) == (k - 1) * (len \div n) + (IF k - 1 <= len % n THEN k - 1 ELSE len % n)

\* sections of len // n elements each: the remainder is dropped
array_split_floor(ary, n) ==
    [k \in 1..n |-> SubSeq(ary, (k - 1) * (Len(ary) \div n) + 1, k * (Len(ary) \div n))]

array_split(ary, n) ==
    [k \in 1..n |-> SubSeq(ary, DivPoint(Len(ary), n, k) + 1,
                           DivPoint(Len(ary), n, k) + SectionSize(Len(ary), n, k))]

(***************************************************************************)
(* init_processes, line 76: split the list.  array_split raises ValueError *)
(* for 0 sections and the program ends.                                    *)
(***************************************************************************)
InitProcesses ==
    /\ mpc = "read"
    /\ IF cpu_cores = 0
       THEN /\ mpc' = "crashed"
            /\ ip_list_split' = ip_list_split
       ELSE /\ mpc' = "spawn"
            /\ ip_list_split' = array_split(main_list, cpu_cores)
    /\ UNCHANGED <<logins, cpu_cores, main_list, processes, queue, found, lock, threads,
                   tpc, tip>>

(***************************************************************************)
(* init_processes, lines 79-83: one turn of the loop starts a process on   *)
(* p_main(ip_list_split[i].tolist()); p_main's init_globals makes the      *)
(* section the process's ip_list.  After the last turn the function        *)
(* returns.                                                                *)
(***************************************************************************)
StartProcess ==
    /\ mpc = "spawn"
    /\ processes < cpu_cores
    /\ processes' = processes + 1
    /\ queue' = [queue EXCEPT ![processes + 1] = ip_list_split[processes + 1]]
    /\ mpc' = IF processes + 1 = cpu_cores THEN "exit" ELSE "spawn"
    /\ UNCHANGED <<logins, cpu_cores, main_list, ip_list_split, found, lock, threads, tpc, tip>>

\* the worker process p has died
Crashed(p) == \A t \in 1..MainThreads : tpc[p][t] = "dead"

\* p_main, lines 93-96: one turn of the loop starts a thread on t_main
StartThread(p) ==
    /\ p <= processes
    /\ ~Crashed(p)
    /\ threads[p] < MainThreads
    /\ threads' = [threads EXCEPT ![p] = @ + 1]
    /\ tpc' = [tpc EXCEPT ![p][threads[p] + 1] = "check"]
    /\ UNCHANGED <<mpc, logins, cpu_cores, main_list, ip_list_split, processes, queue,
                   found, lock, tip>>

\* t_main, line 112: the loop condition, evaluated without the lock
Check(p, t) ==
    /\ tpc[p][t] = "check"
    /\ tpc' = [tpc EXCEPT ![p][t] = IF Len(queue[p]) > 0 THEN "acquire" ELSE "end"]
    /\ UNCHANGED <<mpc, logins, cpu_cores, main_list, ip_list_split, processes, queue,
                   found, lock, threads, tip>>

\* t_main, line 115: enter the with block of the lock
Acquire(p, t) ==
    /\ tpc[p][t] = "acquire"
    /\ lock[p] = 0
    /\ lock' = [lock EXCEPT ![p] = t]
    /\ tpc' = [tpc EXCEPT ![p][t] = "pop"]
    /\ UNCHANGED <<mpc, logins, cpu_cores, main_list, ip_list_split, processes, queue,
                   found, threads, tip>>

(***************************************************************************)
(* t_main, lines 116-121: ip_list.pop() takes the last element and the     *)
(* with block releases the lock.  On an empty list pop raises IndexError:  *)
(* the lock is released, the except clause prints it and the loop goes on. *)
(***************************************************************************)
\* login(ip) called inside the with block: the lock is kept over the login
PopHostKeepsLock(p, t) ==
    /\ tpc[p][t] = "pop"
    /\ IF queue[p] = <<>>
       THEN /\ tpc' = [tpc EXCEPT ![p][t] = "check"]
            /\ lock' = [lock EXCEPT ![p] = 0]
            /\ UNCHANGED <<queue, tip>>
       ELSE /\ tip' = [tip EXCEPT ![p][t] = queue[p][Len(queue[p])]]
            /\ queue' = [queue EXCEPT ![p] = SubSeq(@, 1, Len(@) - 1)]
            /\ tpc' = [tpc EXCEPT ![p][t] = "login"]
            /\ lock' = lock
    /\ UNCHANGED <<mpc, logins, cpu_cores, main_list, ip_list_split, processes, found, threads>>

PopHost(p, t) ==
    /\ tpc[p][t] = "pop"
    /\ lock' = [lock EXCEPT ![p] = 0]
    /\ IF queue[p] = <<>>
       THEN /\ tpc' = [tpc EXCEPT ![p][t] = "check"]
            /\ UNCHANGED <<queue, tip>>
       ELSE /\ tip' = [tip EXCEPT ![p][t] = queue[p][Len(queue[p])]]
            /\ queue' = [queue EXCEPT ![p] = SubSeq(@, 1, Len(@) - 1)]
            /\ tpc' = [tpc EXCEPT ![p][t] = "login"]
    /\ UNCHANGED <<mpc, logins, cpu_cores, main_list, ip_list_split, processes, found, threads>>

(***************************************************************************)
(* login, lines 126-159: connect and log in; on success the host is        *)
(* appended to servers_found; every exception is caught in login.          *)
(***************************************************************************)
LoginOutcomes == {"ok", "ftp", "other"}

\* a login that failed puts the host back in the queue
LoginRetries(p, t) ==
    /\ tpc[p][t] = "login"
    /\ \E r \in LoginOutcomes :
         /\ found' = [found EXCEPT ![p] = IF r = "ok" THEN Append(@, tip[p][t]) ELSE @]
         /\ queue' = [queue EXCEPT ![p] = IF r = "ok" THEN @ ELSE Append(@, tip[p][t])]
    /\ logins' = [logins EXCEPT ![p][tip[p][t]] = @ + 1]
    /\ tpc' = [tpc EXCEPT ![p][t] = "check"]
    /\ tip' = [tip EXCEPT ![p][t] = None]
    /\ UNCHANGED <<mpc, cpu_cores, main_list, ip_list_split, processes, lock, threads>>

Login(p, t) ==
    /\ tpc[p][t] = "login"
    /\ \E r \in LoginOutcomes :
         found' = [found EXCEPT ![p] = IF r = "ok" THEN Append(@, tip[p][t]) ELSE @]
    /\ logins' = [logins EXCEPT ![p][tip[p][t]] = @ + 1]
    /\ tpc' = [tpc EXCEPT ![p][t] = "check"]
    /\ tip' = [tip EXCEPT ![p][t] = None]
    /\ UNCHANGED <<mpc, cpu_cores, main_list, ip_list_split, processes, queue,
                   lock, threads>>

ProcessDone(p) == threads[p] = MainThreads /\ \A t \in 1..MainThreads : tpc[p][t] = "end"

\* a fault that takes every process down: the workers as threads of one process
CrashAll(p) ==
    /\ p <= processes
    /\ ~ProcessDone(p)
    /\ ~Crashed(p)
    /\ tpc' = [q \in 1..cpu_cores |-> [t \in 1..MainThreads |-> "dead"]]
    /\ tip' = [q \in 1..cpu_cores |-> [t \in 1..MainThreads |-> None]]
    /\ threads' = [q \in 1..cpu_cores |-> 0]
    /\ lock' = [q \in 1..cpu_cores |-> 0]
    /\ queue' = [q \in 1..cpu_cores |-> <<>>]
    /\ found' = [q \in 1..cpu_cores |-> <<>>]
    /\ logins' = [q \in 1..cpu_cores |-> [h \in MainHosts |-> 0]]
    /\ UNCHANGED <<mpc, cpu_cores, main_list, ip_list_split, processes>>

(***************************************************************************)
(* A worker process started at line 82 dies while it runs (it is killed,   *)
(* runs out of memory, or an error ends it): its threads are gone and so   *)
(* is its memory, the globals ip_list and servers_found of the process.    *)
(* The other processes have their own memory and go on.                    *)
(***************************************************************************)
Crash(p) ==
    /\ p <= processes
    /\ ~ProcessDone(p)
    /\ ~Crashed(p)
    /\ tpc' = [tpc EXCEPT ![p] = [t \in 1..MainThreads |-> "dead"]]
    /\ tip' = [tip EXCEPT ![p] = [t \in 1..MainThreads |-> None]]
    /\ threads' = [threads EXCEPT ![p] = 0]
    /\ lock' = [lock EXCEPT ![p] = 0]
    /\ queue' = [queue EXCEPT ![p] = <<>>]
    /\ found' = [found EXCEPT ![p] = <<>>]
    /\ logins' = [logins EXCEPT ![p] = [h \in MainHosts |-> 0]]
    /\ UNCHANGED <<mpc, cpu_cores, main_list, ip_list_split, processes>>

\* the interpreter's exit joins the child processes, the dead ones too
MainExit ==
    /\ mpc = "exit"
    /\ \A p \in 1..cpu_cores : ProcessDone(p) \/ Crashed(p)
    /\ mpc' = "done"
    /\ UNCHANGED <<logins, cpu_cores, main_list, ip_list_split, processes, queue, found,
                   lock, threads, tpc, tip>>

NextMain ==
    \/ MainReadIps /\ UNCHANGED svars
    \/ InitProcesses /\ UNCHANGED svars
    \/ StartProcess /\ UNCHANGED svars
    \/ \E p \in 1..cpu_cores : StartThread(p) /\ UNCHANGED svars
    \/ \E p \in 1..cpu_cores : \E t \in 1..MainThreads : Check(p, t) /\ UNCHANGED svars
    \/ \E p \in 1..cpu_cores : \E t \in 1..MainThreads : Acquire(p, t) /\ UNCHANGED svars
    \/ \E p \in 1..cpu_cores : \E t \in 1..MainThreads : PopHost(p, t) /\ UNCHANGED svars
    \/ \E p \in 1..cpu_cores : \E t \in 1..MainThreads : Login(p, t) /\ UNCHANGED svars
    \/ \E p \in 1..cpu_cores : Crash(p) /\ UNCHANGED svars
    \/ MainExit /\ UNCHANGED svars

SpecMain == InitMain /\ [][NextMain]_vars

\* main.py under fair scheduling of its processes and threads
FairMain == SpecMain /\ WF_vars(NextMain)

(***************************************************************************)
(* init_processes on its own, over more lists and section counts: the      *)
(* state after parse_args, then the split.                                 *)
(***************************************************************************)
MaxAry == 4

MaxSections == 3

InitSplit ==
    /\ ScanOff
    /\ mpc = "read"
    /\ cpu_cores \in 0..MaxSections
    /\ main_list \in SeqsUpTo(Hosts, MaxAry)
    /\ ip_list_split = <<>>
    /\ processes = 0
    /\ queue = [p \in 1..cpu_cores |-> <<>>]
    /\ found = [p \in 1..cpu_cores |-> <<>>]
    /\ lock = [p \in 1..cpu_cores |-> 0]
    /\ threads = [p \in 1..cpu_cores |-> 0]
    /\ tpc = [p \in 1..cpu_cores |-> [t \in 1..MainThreads |-> "unborn"]]
    /\ tip = [p \in 1..cpu_cores |-> [t \in 1..MainThreads |-> None]]
    /\ logins = [p \in 1..cpu_cores |-> [h \in MainHosts |-> 0]]

NextSplit == InitProcesses /\ UNCHANGED svars

SpecSplit == InitSplit /\ [][NextSplit]_vars

\* scan() under fair scheduling: a step that can be taken is taken
FairSpec == Spec /\ WF_vars(Next)

(***************************************************************************)
(*                              The claims                                 *)
(***************************************************************************)
RECURSIVE Concat(_)
Concat(ss) == IF ss = <<>> THEN <<>> ELSE Head(ss) \o Concat(Tail(ss))

Range(f) == {f[k] : k \in DOMAIN f}

Count(seq, x) == Cardinality({k \in DOMAIN seq : seq[k] = x})

Last(seq) == seq[Len(seq)]

\* the scan_server call of work item i has a session
Scanning(i) == ipc[i] \in {"connect", "record", "traverse", "exit"}

\* C1: once init_processes has split the list over K >= 1 workers, there are K
\* partitions, their concatenation is the original list (every host exactly
\* once) and their sizes differ pairwise by at most 1.
PartitionExact ==
    (mpc = "spawn") =>
        /\ Len(ip_list_split) = cpu_cores
        /\ Concat(ip_list_split) = main_list
        /\ \A h \in Hosts : Count(Concat(ip_list_split), h) = Count(main_list, h)
        /\ \A a, b \in 1..cpu_cores :
             Len(ip_list_split[a]) - Len(ip_list_split[b]) \in {-1, 0, 1}

\* a split over more workers than hosts, of a list that does not divide evenly
PartitionWitness ==
    /\ mpc = "spawn"
    /\ cpu_cores = 3
    /\ Len(main_list) = 2
    /\ ip_list_split[3] = <<>>

\* C2: no host is being scanned by two tasks at the same time, for any input list.
OneSessionPerHost ==
    \A i, j \in Items :
        (i # j /\ Scanning(i) /\ Scanning(j)) => ip_list[i] # ip_list[j]

\* C3: one scan of a host writes the host's status exactly once: no step after
\* the first add_server writes a second one.
StatusWrittenOnce == \A i \in Items : Len(log[i]) <= 1

\* C4: when the run is over, every host whose anonymous login succeeded is in
\* the found-list exactly once and its status is success.
LoginSuccessIsFound ==
    (spc = "done") =>
        \A i \in Items :
            "ok" \in hist[i] =>
                Count(ret, ip_list[i]) = 1 /\ status[ip_list[i]] = "success"

ConnectFailed(i) == hist[i] \cap {"refused", "rejected"} # {}

\* C5: a scan whose connect or login was refused, reset, timed out or rejected
\* returns None and records failed; a host all of whose scans ended so has
\* status failed and is never in the found-list.
FailedIsNotFound ==
    /\ \A i \in Items :
         ConnectFailed(i) => results[i] = None /\ log[i] = <<"failed">>
    /\ \A h \in Hosts :
         ((\E i \in Items : ip_list[i] = h) /\
          (\A i \in Items : ip_list[i] = h => ConnectFailed(i)))
         => status[h] = "failed" /\ h \notin Range(servers_found) /\ h \notin Range(ret)

\* the run is over, one host was refused or rejected and another one was found
FailedWitness ==
    /\ spc = "done"
    /\ \E i, j \in Items : ConnectFailed(i) /\ ret = <<ip_list[j]>> /\ ip_list[i] # ip_list[j]

\* C6: when a scan_directory call returns, the remote directory is the one
\* that was current when the call began, whatever the exit path.
StackBalance ==
    [][\A i \in Items :
         (ipc[i] = "traverse" /\ Len(stack'[i]) < Len(stack[i]))
         => cwd'[i] = Top(i).before]_vars

\* C7: after scan_server has returned for a host, no connection opened to
\* that host is still open.
ConnectionsClosed == \A i \in Items : ipc[i] = "done" => conn[i] # "open"

Unexpected == {"garbled", "absorbed", "escaped", "quit_other"}

\* C8 as stated: a scan in which an unexpected error was raised ends with the
\* host's status written as error.
UnexpectedSetsError ==
    \A i \in Items :
        (ipc[i] = "done" /\ hist[i] \cap Unexpected # {})
        => log[i] # <<>> /\ Last(log[i]) = "error"

\* the unexpected error left scan_server's with block and was not replaced
LeftWithBlock(i) ==
    \/ "garbled" \in hist[i]
    \/ "quit_other" \in hist[i]
    \/ "escaped" \in hist[i] /\ "quit_ftp" \notin hist[i]

\* the scan logged in and nothing left its with block
OwnSuccess(i) == "ok" \in hist[i] /\ hist[i] \cap {"escaped", "quit_ftp", "quit_other"} = {}

\* C8 as amended: an unexpected error that leaves the with block records error
\* and returns None; one caught inside scan_directory leaves the scan a
\* success; when the run is over every host has been scanned and reported,
\* each with the outcome of its own scan.
UnexpectedIsContained ==
    /\ \A i \in Items :
         (ipc[i] = "done" /\ LeftWithBlock(i))
         => log[i] # <<>> /\ Last(log[i]) = "error" /\ results[i] = None
    /\ \A i \in Items :
         (ipc[i] = "done" /\ "absorbed" \in hist[i] /\ OwnSuccess(i))
         => log[i] = <<"success">> /\ results[i] = ip_list[i]
    /\ (spc = "done") =>
         \A j \in Items :
            /\ ipc[j] = "done"
            /\ log[j] # <<>>
            /\ results[j] = IF OwnSuccess(j) THEN ip_list[j] ELSE None

\* the run is over: one scan met an unexpected error, another host was found
UnexpectedWitness ==
    /\ spc = "done"
    /\ \E i, j \in Items :
         /\ i # j
         /\ LeftWithBlock(i)
         /\ results[j] = ip_list[j]
         /\ status[ip_list[i]] = "error"

\* C9: under fair scheduling the run completes: scan() returns its found-list.
RunCompletes == <>(spc = "done")

\* a run that is over after a traversal ran into the recursion limit
RunCompletesWitness ==
    /\ spc = "done"
    /\ \E i \in Items : "recursion" \in hist[i] /\ results[i] = ip_list[i]

\* C10: when the run is over, the found-list is exactly the set of hosts whose
\* status is success.
FoundListIsSuccessSet ==
    (spc = "done") => Range(ret) = {h \in Hosts : status[h] = "success"}

\* C11: once the orchestrator has completed (init_processes has returned and
\* the main program is over), every worker it spawned has terminated and the
\* hosts the worker found have been collected by the main process.
WorkersJoinedAndCollected ==
    (mpc \in {"exit", "done"}) =>
        /\ \A p \in 1..cpu_cores : ProcessDone(p) \/ Crashed(p)
        /\ \A p \in 1..cpu_cores : Range(found[p]) \subseteq Range(servers_found)

\* C12: the number of connections that have been opened and not yet closed
\* never exceeds the configured session bound.
OpenSocketsBounded ==
    Cardinality({i \in Items : conn[i] = "open"}) <= num_threads

\* C13: the queue lock is held only by a task that is at the pop; a task that
\* is logging in (the network I/O of main.py) does not hold it, and while one
\* task is logging in the lock is free or held by a task at the pop.
LockOnlyAcrossPop ==
    \A p \in 1..cpu_cores :
        /\ lock[p] \in 0..MainThreads
        /\ lock[p] # 0 => tpc[p][lock[p]] = "pop"
        /\ \A t \in 1..MainThreads : tpc[p][t] \in {"login", "check", "acquire", "end"} => lock[p] # t

\* one task is logging in while another one holds the lock for its pop
LockWitness ==
    \E p \in 1..cpu_cores : \E t, u \in 1..MainThreads :
        tpc[p][t] = "login" /\ tpc[p][u] = "pop" /\ lock[p] = u

\* the scan_directory call on top of the stack is leaving without having
\* entered its directory: the early return of line 173
FailedEntry(i) ==
    /\ ipc[i] = "traverse"
    /\ Top(i).phase = "finally"
    /\ Top(i).items = <<>>
    /\ <<ip_list[i], Top(i).path>> \notin dirs

\* C14: a change into a directory that fails writes no directory record, no
\* file record and no status, and leaves the calling scan_directory where it
\* was; nothing is listed or recorded below the failed directory; when the
\* failed call returns, the caller goes on with the remaining entries of its
\* listing (unless the change back to the parent raised an unexpected error
\* of its own) and the host's status is still the success written at login.
FailedChangeAbortsBranch ==
    [][\A i \in Items :
         /\ (/\ ipc[i] = "traverse"
             /\ Top(i).phase = "enter"
             /\ Len(stack'[i]) = Len(stack[i])
             /\ stack'[i][Len(stack[i])].phase = "finally")
            => /\ dirs' = dirs
               /\ files' = files
               /\ status' = status
               /\ log' = log
               /\ stack'[i][Len(stack[i])].items = <<>>
               /\ SubSeq(stack'[i], 1, Len(stack[i]) - 1) = Pop(i)
         /\ (FailedEntry(i) /\ stack'[i] # stack[i])
            => /\ dirs' = dirs
               /\ files' = files
               /\ status' = status
               /\ log' = log
               /\ log[i] = <<"success">>
               /\ Len(stack'[i]) = Len(stack[i]) - 1
               /\ \/ stack'[i] = Pop(i)
                  \/ "absorbed" \in hist'[i] \/ "escaped" \in hist'[i]]_vars

\* a change into a subdirectory has failed, the caller has entries left, and
\* the host's status is success
FailedChangeWitness ==
    \E i \in Items :
        /\ FailedEntry(i)
        /\ Len(stack[i]) > 1
        /\ stack[i][Len(stack[i]) - 1].items # <<>>
        /\ hist[i] = {"ok"}
        /\ status[ip_list[i]] = "success"

\* a comes before b in seq
Before(seq, a, b) == \E m, n \in DOMAIN seq : m < n /\ seq[m] = a /\ seq[n] = b

\* C15 as stated: if the scan of host A completes before the scan of host B
\* and both are found, A precedes B in the found-list.
FoundListInCompletionOrder ==
    \A i, j \in 1..MaxLines :
        []((/\ i \in Items
            /\ j \in Items
            /\ ip_list[i] # ip_list[j]
            /\ ipc[i] = "done"
            /\ results[i] = ip_list[i]
            /\ ipc[j] # "done")
           => []((/\ spc = "done"
                  /\ i \in Items
                  /\ j \in Items
                  /\ results[j] = ip_list[j])
                 => Before(ret, ip_list[i], ip_list[j])))

\* the hosts of the first k entries of ip_list whose scan returned the host
RECURSIVE FoundUpTo(_)
FoundUpTo(k) ==
    IF k = 0 THEN <<>>
    ELSE FoundUpTo(k - 1) \o (IF results[k] = ip_list[k] THEN <<ip_list[k]>> ELSE <<>>)

\* C15 as amended: the found-list scan() returns holds the hosts whose scan
\* succeeded in the order of the shuffled input list, whatever the order in
\* which the scans completed.
FoundListInInputOrder ==
    (spc = "done") => ret = FoundUpTo(Len(ip_list)) /\ servers_found = ret

\* the run is over and two different hosts were found
FoundOrderWitness ==
    /\ spc = "done"
    /\ Len(ret) = 2
    /\ ret[1] # ret[2]
    /\ ret = ip_list

\* C16: when the host list that was read is empty, no worker process and no
\* thread is started.
EmptyListSpawnsNothing ==
    (mpc # "start" /\ main_list = <<>>) =>
        /\ processes = 0
        /\ \A p \in 1..cpu_cores : threads[p] = 0

\* the tasks of process p that have popped host h and not yet finished its login
InFlight(p, h) == Cardinality({t \in 1..MainThreads : tip[p][t] = h})

RECURSIVE LoginsOf(_, _)
LoginsOf(h, k) == IF k = 0 THEN 0 ELSE LoginsOf(h, k - 1) + logins[k][h]

\* C17: in a worker that has not died, every entry of the partition is in
\* the queue, or with the task that popped it, or has been handed to login
\* once, and never two of these:
\* no host is handed over a second time or put back after a failure; when the
\* run is over every host of the input has been handed to login exactly once,
\* whatever the outcomes of the logins before it.
EachHostOnce ==
    /\ \A p \in 1..processes : \A h \in MainHosts :
         ~Crashed(p) =>
            logins[p][h] + InFlight(p, h) + Count(queue[p], h) = Count(ip_list_split[p], h)
    /\ (mpc = "done" /\ \A p \in 1..cpu_cores : ~Crashed(p)) =>
         \A h \in MainHosts : LoginsOf(h, cpu_cores) = Count(main_list, h)

\* the run is over; in one worker the login of the first host popped failed
\* and the host popped after it was found
EachHostOnceWitness ==
    /\ mpc = "done"
    /\ \E p \in 1..cpu_cores :
         /\ Len(ip_list_split[p]) = 2
         /\ ip_list_split[p][1] # ip_list_split[p][2]
         /\ found[p] = <<ip_list_split[p][1]>>
         /\ \A h \in Range(ip_list_split[p]) : logins[p][h] = 1

\* p_main has returned: its loop has started the last thread
PMainReturned(p) == threads[p] = MainThreads

\* C18: under fair scheduling a session task that finds the worker's queue
\* empty terminates, and the worker's main routine p_main has returned only
\* when all of its session tasks have terminated.
SchedulerWaitsForTasks ==
    /\ \A p \in CoreCounts \ {0} : \A t \in 1..MainThreads :
         (p <= cpu_cores /\ queue[p] = <<>> /\ tpc[p][t] \in {"check", "acquire", "pop", "login"})
         ~> (p <= cpu_cores /\ tpc[p][t] \in {"end", "dead"})
    /\ [](\A p \in 1..cpu_cores :
            PMainReturned(p) => \A t \in 1..MainThreads : tpc[p][t] = "end")

\* worker q has scanned its whole partition and its tasks have ended
ScannedAll(q) ==
    /\ ProcessDone(q)
    /\ queue[q] = <<>>
    /\ \A h \in MainHosts : logins[q][h] = Count(ip_list_split[q], h)
    /\ Range(found[q]) \subseteq Range(ip_list_split[q])

\* C19: the step in which a worker dies changes nothing of any other worker
\* (its queue, its tasks, the hosts it has found), and under fair scheduling
\* every worker that does not die itself scans all hosts of its partition
\* and terminates, whatever happens to the others.
WorkerFaultIsolated ==
    /\ [][\A p \in 1..cpu_cores :
            (Crashed(p)' /\ ~Crashed(p)) =>
                \A q \in 1..cpu_cores \ {p} :
                    /\ queue'[q] = queue[q]
                    /\ found'[q] = found[q]
                    /\ logins'[q] = logins[q]
                    /\ tpc'[q] = tpc[q]
                    /\ tip'[q] = tip[q]
                    /\ lock'[q] = lock[q]
                    /\ threads'[q] = threads[q]]_vars
    /\ \A q \in CoreCounts \ {0} :
         (q <= cpu_cores /\ mpc = "spawn") ~> (q <= cpu_cores /\ (Crashed(q) \/ ScannedAll(q)))

\* the run is over: one worker died with hosts in its partition, another one
\* scanned its partition and found a host
FaultIsolationWitness ==
    /\ mpc = "done"
    /\ \E p, q \in 1..cpu_cores :
         /\ Crashed(p)
         /\ ip_list_split[p] # <<>>
         /\ ScannedAll(q)
         /\ found[q] # <<>>

\* the steps a session takes: not started, connecting and logging in, logged
\* in, traversing, leaving the with block, over
SessionSteps ==
    {<<"queued", "connect">>, <<"connect", "record">>, <<"connect", "done">>,
     <<"record", "traverse">>, <<"traverse", "exit">>, <<"exit", "done">>}

\* C20: a session moves through its states in order only; a session that has
\* written success, or is changing directory or listing, has logged in and
\* is connected; before the login nothing is recorded and no command issued;
\* a session that is disconnected, or over, issues no command any more.
SessionOrder ==
    /\ [](\A i \in Items :
            /\ ipc[i] \in {"record", "traverse", "exit"} => "ok" \in hist[i] /\ conn[i] = "open"
            /\ (\E k \in DOMAIN log[i] : log[i][k] = "success") => "ok" \in hist[i]
            /\ stack[i] # <<>> => ipc[i] = "traverse"
            /\ ipc[i] \in {"queued", "connect"} =>
                  conn[i] = "none" /\ log[i] = <<>> /\ cwd[i] = <<>> /\ stack[i] = <<>>
            /\ conn[i] = "closed" => ipc[i] = "done" /\ stack[i] = <<>>)
    /\ [](\A h \in Hosts :
            (\E d \in dirs \cup files : d[1] = h) =>
                \E i \in Items : ip_list[i] = h /\ "ok" \in hist[i])
    /\ [][\A i \in Items :
            /\ ipc'[i] # ipc[i] => <<ipc[i], ipc'[i]>> \in SessionSteps
            /\ ipc[i] = "done" =>
                  /\ ipc'[i] = "done"
                  /\ conn'[i] = conn[i]
                  /\ cwd'[i] = cwd[i]
                  /\ stack'[i] = stack[i]
                  /\ log'[i] = log[i]]_vars

\* a session that logged in, recorded a directory and was disconnected,
\* next to one whose login was rejected and that recorded nothing
SessionOrderWitness ==
    \E i, j \in Items :
        /\ conn[i] = "closed"
        /\ log[i] = <<"success">>
        /\ <<ip_list[i], <<>>>> \in dirs
        /\ ip_list[j] # ip_list[i]
        /\ "rejected" \in hist[j]
        /\ log[j] = <<"failed">>
        /\ \A d \in dirs \cup files : d[1] # ip_list[j]

\* C21: no task attempts to pop from an empty queue: a task that has passed
\* the emptiness check and holds the lock for its pop finds a host in the
\* queue.
PopNeverOnEmpty ==
    \A p \in 1..cpu_cores : \A t \in 1..MainThreads :
        tpc[p][t] = "pop" => queue[p] # <<>>

====
